---- MODULE Spec2Model ----
(***************************************************************************)
(* opticalmaterialspy: the _Material base class (unit normalizer, lazily   *)
(* cached derivative interpolants, derived optical quantities) and three   *)
(* of its permittivity evaluators (Su8, Chalcogenide, Data).               *)
(*                                                                         *)
(* Numbers.  A wavelength is a decimal [m, e] standing for m * 10^e, kept  *)
(* canonical (no trailing zero in m), so that the products with 1e9, 1e3,  *)
(* 1e-9 and 1e-3 and the comparisons of the normalizer are exact.  A       *)
(* computed quantity is a value [k, num, den, e]: k = "real" stands for    *)
(* (num/den) * 10^e with num/den in lowest terms, k = "imag" for that      *)
(* number times the imaginary unit, k = "nan" for NaN.  Permittivity is    *)
(* evaluated in fixed point with resolution 1e-6, the index with           *)
(* resolution 1e-3.                                                        *)
(***************************************************************************)
EXTENDS Integers, Sequences, FiniteSets, TLC

VARIABLES
    mat,        \* the constructed material: class and constructor arguments
    wlMin,      \* self._wlMin
    wlMax,      \* self._wlMax
    wls,        \* self._wls, the sampling grid
    wlStep,     \* self._wlStep
    nDer1Func,  \* self.nDer1Func, None or an interpolant [x, y]
    nDer2Func,  \* self.nDer2Func, None or an interpolant [x, y]
    gridEvals,  \* how many times _eps was called with a whole grid so far
    last,       \* the public call that has just ended: operation, argument, outcome
    prevDer1,   \* the latest nDer1 call the caller has taken the outcome of
    pc,         \* concurrent callers: position of each caller
    targ,       \* concurrent callers: operation and argument of each caller
    tloc,       \* concurrent callers: local variables of each caller
    tret        \* concurrent callers: what each caller returned

vars == <<mat, wlMin, wlMax, wls, wlStep, nDer1Func, nDer2Func, gridEvals,
          last, prevDer1, pc, targ, tloc, tret>>

fields == <<mat, wlMin, wlMax, wls, wlStep, nDer1Func, nDer2Func>>

threadVars == <<pc, targ, tloc, tret>>

-----------------------------------------------------------------------------
(* Decimals                                                                *)

Dec(m, e) == [m |-> m, e |-> e]

RECURSIVE Canon(_)
Canon(d) ==
    IF d.m = 0 THEN Dec(0, 0)
    ELSE IF d.m % 10 = 0 THEN Canon(Dec(d.m \div 10, d.e + 1))
    ELSE d

Pow10(k) == 10 ^ k

\* a <= b, exactly, without forming a product that leaves 32 bits
LeqD(a, b) ==
    IF a.e >= b.e
    THEN LET d == a.e - b.e IN
         IF d > 9 THEN (a.m < 0) \/ (a.m = 0 /\ b.m >= 0)
         ELSE a.m <= b.m \div Pow10(d)
    ELSE LET d == b.e - a.e IN
         IF d > 9 THEN (b.m > 0) \/ (b.m = 0 /\ a.m <= 0)
         ELSE ~(b.m <= (a.m - 1) \div Pow10(d))

\* d * 10^k
MulPow10(d, k) == Canon(Dec(d.m, d.e + k))

MinInt(a, b) == IF a <= b THEN a ELSE b

\* f as a sequence whose elements are computed once
Vector(f) == f \o <<>>

\* F of the value of v, v computed once
Bind(v, F(_)) == CHOOSE r \in { F(b) : b \in {v} } : TRUE

\* a + b and a - b
AddD(a, b) ==
    LET e == MinInt(a.e, b.e) IN
    Canon(Dec(a.m * Pow10(a.e - e) + b.m * Pow10(b.e - e), e))

SubD(a, b) == AddD(a, Dec(0 - b.m, b.e))

\* the integer part of a decimal
IntOf(d) == IF d.e >= 0 THEN d.m * Pow10(d.e) ELSE d.m \div Pow10(0 - d.e)

-----------------------------------------------------------------------------
(* Values                                                                  *)

Abs(n) == IF n < 0 THEN 0 - n ELSE n

RECURSIVE Gcd(_, _)
Gcd(a, b) == IF b = 0 THEN a ELSE Gcd(b, a % b)

NaN == [k |-> "nan", num |-> 0, den |-> 1, e |-> 0]

\* (num/den) * 10^e in lowest terms, den > 0
Real(num, den, e) ==
    LET g == Gcd(Abs(num), Abs(den))
        s == IF den < 0 THEN 0 - 1 ELSE 1
    IN  [k |-> "real", num |-> s * (num \div g), den |-> s * (den \div g), e |-> e]

IsReal(v) == v.k = "real"

\* the numerator of v at exponent e <= v.e
NumAt(v, e) == v.num * Pow10(v.e - e)

\* a - b and a + b, at the smaller of the two exponents
SubV(a, b) ==
    IF ~IsReal(a) \/ ~IsReal(b) THEN NaN
    ELSE LET g == Gcd(a.den, b.den)
             e == MinInt(a.e, b.e)
         IN  Real(NumAt(a, e) * (b.den \div g) - NumAt(b, e) * (a.den \div g),
                  (a.den \div g) * b.den, e)

AddV(a, b) ==
    IF ~IsReal(a) \/ ~IsReal(b) THEN NaN
    ELSE LET g == Gcd(a.den, b.den)
             e == MinInt(a.e, b.e)
         IN  Real(NumAt(a, e) * (b.den \div g) + NumAt(b, e) * (a.den \div g),
                  (a.den \div g) * b.den, e)

\* v / d and v * d for a decimal d: by the whole number d stands for, or, for
\* a d with decimal places, by its mantissa with its power of ten moved to
\* the exponent
DivVD(v, d) ==
    IF ~IsReal(v) THEN NaN
    ELSE IF d.e >= 0 THEN Real(v.num, v.den * IntOf(d), v.e)
    ELSE Real(v.num, v.den * d.m, v.e - d.e)

MulVD(v, d) ==
    IF ~IsReal(v) THEN NaN
    ELSE IF d.e >= 0 THEN Real(v.num * IntOf(d), v.den, v.e)
    ELSE Real(v.num * d.m, v.den, v.e + d.e)

\* v * 10^k: the mantissa is kept, NaN stays NaN
ScaleV(v, k) == IF IsReal(v) THEN [v EXCEPT !.e = v.e + k] ELSE v

RECURSIVE SqrtBetween(_, _, _)
SqrtBetween(x, lo, hi) ==
    IF hi - lo <= 1 THEN lo
    ELSE LET mid == (lo + hi) \div 2 IN
         IF mid * mid <= x THEN SqrtBetween(x, mid, hi)
         ELSE SqrtBetween(x, lo, mid)

\* floor of the square root
ISqrt(x) == SqrtBetween(x, 0, 46341)

-----------------------------------------------------------------------------
(* Arguments and results                                                   *)

\* A wavelength argument: a Python scalar, a numpy array, or None.
Scalar(d) == [kind |-> "scalar", xs |-> <<d>>]
Array(ds) == [kind |-> "array", xs |-> ds]
None == [kind |-> "None", xs |-> <<>>]

\* What a call gives back: a value per element, or the exception it raised.
\* arg is the caller's argument object as the call leaves it.
Returned(val, arg) == [err |-> "", val |-> Vector(val), arg |-> arg]
Raised(err, arg) == [err |-> err, val |-> <<>>, arg |-> arg]

-----------------------------------------------------------------------------
(* Materials (material.py)                                                 *)

DefaultWlMinNm == 300
DefaultWlMaxNm == 5000
NumGridPoints == 100

\* Su8.coefs = [1.5525, 0.00629, 0.0004], in units of 1e-5
Su8Coefs == <<155250, 629, 40>>

\* Chalcogenide.cauchyCoefs, in units of 1e-3
CauchyCoefs ==
    [t \in {"As2S3", "As2Se3", "GeSe4", "Ge10As10Se80"} |->
        CASE t = "As2S3"  -> <<5410, 200, 140>>
          [] t = "As2Se3" -> <<7560, 1030, 120>>
          [] OTHER        -> <<5730, 800, 0 - 180>>]

\* 1 / wavelengthUm^2 in units of 1e-3, for a wavelength in micrometers
InvSquareMilli(wavelengthUm) ==
    LET nm == IntOf(MulPow10(wavelengthUm, 3)) IN Pow10(9) \div (nm * nm)

\* c * (x/1000)^i
RECURSIVE TimesPowMilli(_, _, _)
TimesPowMilli(c, x, i) ==
    IF i = 0 THEN c ELSE TimesPowMilli((c * x) \div 1000, x, i - 1)

\* _Material._cauchy_equation: sum of c_i / wavelength^(2 i), in the units of c
RECURSIVE CauchySum(_, _, _)
CauchySum(x, coefficients, i) ==
    IF i > Len(coefficients) THEN 0
    ELSE TimesPowMilli(coefficients[i], x, i - 1) + CauchySum(x, coefficients, i + 1)

cauchy_equation(wavelength, coefficients) ==
    CauchySum(InvSquareMilli(wavelength), coefficients, 1)

\* Su8._eps on one element, the wavelength already divided by 1000: units 1e-6
Su8Eps(wavelengthUm) ==
    LET n == cauchy_equation(wavelengthUm, Su8Coefs) \div 10
    IN  (n * n) \div 100

\* Chalcogenide._eps on one element: units 1e-6
ChalcogenideEps(A, wavelength) ==
    LET x == InvSquareMilli(MulPow10(wavelength, 0 - 3))
    IN  A[1] * 1000 + A[2] * x + A[3] * ((x * x) \div 1000)

\* Data.__init__: n_func = interp1d(wls, ns), evaluated on one element (1e-3)
DataN(m, wavelength) ==
    LET x  == IntOf(wavelength)
        hi == CHOOSE j \in 2..Len(m.wls) :
                  /\ (j = Len(m.wls) \/ x <= IntOf(m.wls[j]))
                  /\ (j = 2 \/ x > IntOf(m.wls[j - 1]))
        lo == hi - 1
    IN  m.ns[lo] + ((m.ns[hi] - m.ns[lo]) * (x - IntOf(m.wls[lo])))
                       \div (IntOf(m.wls[hi]) - IntOf(m.wls[lo]))

\* Data._eps on one element: units 1e-6
DataEps(m, wavelength) == LET n == DataN(m, wavelength) IN n * n

\* The materials constructed: class, constructor arguments, and the bounds
\* the constructor hands to _Material.__init__.
Su8 ==
    [cls |-> "Su8", coefs |-> Su8Coefs,
     wlMinNm |-> Canon(Dec(DefaultWlMinNm, 0)),
     wlMaxNm |-> Canon(Dec(DefaultWlMaxNm, 0))]

Chalcogenide(chalcogenideType) ==
    [cls |-> "Chalcogenide", A |-> CauchyCoefs[chalcogenideType],
     wlMinNm |-> Canon(Dec(DefaultWlMinNm, 0)),
     wlMaxNm |-> Canon(Dec(DefaultWlMaxNm, 0))]

\* Data(wls, ns) with wls in micrometers: wls *= 1e3; wl_min = wls[0];
\* wl_max = wls[-1].  ns is kept in units of 1e-3.
Data(wlsUm, ns) ==
    LET w == Vector([i \in DOMAIN wlsUm |-> MulPow10(wlsUm[i], 3)]) IN
    [cls |-> "Data", wls |-> w, ns |-> ns,
     wlMinNm |-> w[1], wlMaxNm |-> w[Len(w)]]

\* self._eps(wavelength): the evaluator of each class on a whole argument.
\* Su8 rescales its argument in place (wavelength /= 1000.): on an array the
\* caller's object changes, on a scalar only the local name is rebound.
EpsOf(m, wavelength) ==
    IF wavelength.kind = "None" THEN Raised("TypeError", wavelength)
    ELSE CASE m.cls = "Su8" ->
                Bind(Vector([i \in DOMAIN wavelength.xs |->
                                MulPow10(wavelength.xs[i], 0 - 3)]),
                     LAMBDA w :
                Returned([i \in DOMAIN w |-> Real(Su8Eps(w[i]), 1, 0 - 6)],
                         IF wavelength.kind = "array"
                         THEN [wavelength EXCEPT !.xs = w] ELSE wavelength))
           [] m.cls = "Chalcogenide" ->
                Returned([i \in DOMAIN wavelength.xs |->
                             Real(ChalcogenideEps(m.A, wavelength.xs[i]), 1, 0 - 6)],
                         wavelength)
           [] OTHER ->
                Returned([i \in DOMAIN wavelength.xs |->
                             Real(DataEps(m, wavelength.xs[i]), 1, 0 - 6)],
                         wavelength)

-----------------------------------------------------------------------------
(* _Material (_material_base.py)                                           *)

\* np.linspace(start, stop, NumGridPoints, False) and the step (stop-start)/100.
\* The division by 100 is a shift of the decimal point.
StepOf(start, stop) == MulPow10(SubD(stop, start), 0 - 2)

\* Variant of Linspace: the interval is open at its start, closed at its end
LinspaceOpenAtStart(start, stop) ==
    Vector([i \in 1..NumGridPoints |->
               AddD(start, Canon(Dec(StepOf(start, stop).m * i,
                                     StepOf(start, stop).e)))])

Linspace(start, stop) ==
    Bind(StepOf(start, stop), LAMBDA step :
    Vector([i \in 1..NumGridPoints |->
               AddD(start, Canon(Dec(step.m * (i - 1), step.e)))]))

\* The object: its fields as one record, for the methods below.
Self ==
    [mat |-> mat, wlMin |-> wlMin, wlMax |-> wlMax, wls |-> wls,
     wlStep |-> wlStep, nDer1Func |-> nDer1Func, nDer2Func |-> nDer2Func,
     gridEvals |-> gridEvals]

\* _Material.__init__
Construct(m) ==
    [mat |-> m, wlMin |-> m.wlMinNm, wlMax |-> m.wlMaxNm,
     wls |-> Linspace(m.wlMinNm, m.wlMaxNm),
     wlStep |-> StepOf(m.wlMinNm, m.wlMaxNm),
     nDer1Func |-> None, nDer2Func |-> None, gridEvals |-> 0]

\* Variant of WlFactor: the test for meters is left out
WlFactorNoMeters(s, wavelength) ==
    IF \A i \in DOMAIN wavelength.xs :
           LeqD(wavelength.xs[i], MulPow10(s.wlMax, 0 - 3)) THEN 3
    ELSE 0

\* Variant of WlFactor: the micrometer test compares with wlMax itself
WlFactorNmAsMicrons(s, wavelength) ==
    IF \A i \in DOMAIN wavelength.xs :
           LeqD(wavelength.xs[i], MulPow10(s.wlMax, 0 - 9)) THEN 9
    ELSE IF \A i \in DOMAIN wavelength.xs : LeqD(wavelength.xs[i], s.wlMax) THEN 3
    ELSE 0

\* The scale the normalizer picks, as a power of ten.
WlFactor(s, wavelength) ==
    IF \A i \in DOMAIN wavelength.xs :
           LeqD(wavelength.xs[i], MulPow10(s.wlMax, 0 - 9)) THEN 9
    ELSE IF \A i \in DOMAIN wavelength.xs :
           LeqD(wavelength.xs[i], MulPow10(s.wlMax, 0 - 3)) THEN 3
    ELSE 0

\* Variant of Scaled: each element takes the scale its own size suggests
ScaledPerElement(wavelength, k) ==
    [wavelength EXCEPT !.xs = Vector([i \in DOMAIN wavelength.xs |->
        IF LeqD(wavelength.xs[i], Dec(DefaultWlMaxNm, 0 - 3))
        THEN MulPow10(wavelength.xs[i], 3)
        ELSE MulPow10(wavelength.xs[i], k)])]

\* wl = wavelength * wlFactor: a new object
Scaled(wavelength, k) ==
    [wavelength EXCEPT !.xs = Vector([i \in DOMAIN wavelength.xs |->
                                         MulPow10(wavelength.xs[i], k)])]

InBounds(s, wl) ==
    \A i \in DOMAIN wl.xs : LeqD(s.wlMin, wl.xs[i]) /\ LeqD(wl.xs[i], s.wlMax)

\* Variant of ConvertWavelengthUnitsNm: the range assertion is left out
ConvertWithoutAssert(s, wavelength) ==
    IF wavelength.kind # "None"
    THEN [raised |-> FALSE, wl |-> Scaled(wavelength, WlFactor(s, wavelength)),
          factor |-> WlFactor(s, wavelength), fresh |-> TRUE]
    ELSE [raised |-> FALSE, wl |-> wavelength, factor |-> 0 - 1, fresh |-> FALSE]

\* Variant of ConvertWavelengthUnitsNm: an argument already in nanometers is
\* passed on as the caller's object
ConvertInPlace(s, wavelength) ==
    IF wavelength.kind # "None"
    THEN [raised |-> ~InBounds(s, Scaled(wavelength, WlFactor(s, wavelength))),
          wl |-> Scaled(wavelength, WlFactor(s, wavelength)),
          factor |-> WlFactor(s, wavelength),
          fresh |-> WlFactor(s, wavelength) # 0]
    ELSE [raised |-> FALSE, wl |-> wavelength, factor |-> 0 - 1, fresh |-> FALSE]

\* _Material._convertWavelengthUnitsNm.  fresh: wl is a new object, not the
\* caller's.
ConvertWavelengthUnitsNm(s, wavelength) ==
    IF wavelength.kind # "None"
    THEN Bind(WlFactor(s, wavelength), LAMBDA wlFactor :
         Bind(Scaled(wavelength, wlFactor), LAMBDA wl :
             [raised |-> ~InBounds(s, wl), wl |-> wl, factor |-> wlFactor,
              fresh |-> TRUE]))
    ELSE [raised |-> FALSE, wl |-> wavelength, factor |-> 0 - 1, fresh |-> FALSE]

\* _Material.eps: the decorator, then self._eps(wl)
Eps(s, wavelength) ==
    Bind(ConvertWavelengthUnitsNm(s, wavelength), LAMBDA c :
        IF c.raised THEN Raised("AssertionError", wavelength)
        ELSE Bind(EpsOf(s.mat, c.wl), LAMBDA r :
                 [r EXCEPT !.arg = IF c.fresh THEN wavelength ELSE r.arg]))

\* x ** 0.5: a negative Python float gives a complex number, a negative
\* element of an array gives NaN
SqrtOf(v, kind) ==
    IF ~IsReal(v) THEN NaN
    ELSE IF v.num >= 0 THEN Real(ISqrt(v.num), 1, 0 - 3)
    ELSE IF kind = "scalar" THEN [Real(ISqrt(0 - v.num), 1, 0 - 3) EXCEPT !.k = "imag"]
    ELSE NaN

\* _Material.n
N(s, wavelength) ==
    Bind(Eps(s, wavelength), LAMBDA r :
        IF r.err # "" THEN r
        ELSE [r EXCEPT !.val = Vector([i \in DOMAIN r.val |->
                                          SqrtOf(r.val[i], wavelength.kind)])])

\* np.gradient(f, h): central differences inside, one-sided at the two ends
Gradient(f, h) ==
    Bind(<<f, h, Canon(Dec(2 * h.m, h.e))>>, LAMBDA a :
    Vector([i \in 1..Len(a[1]) |->
               IF i = 1 THEN DivVD(SubV(a[1][2], a[1][1]), a[2])
               ELSE IF i = Len(a[1])
                    THEN DivVD(SubV(a[1][i], a[1][i - 1]), a[2])
               ELSE DivVD(SubV(a[1][i + 1], a[1][i - 1]), a[3])]))

\* spi.interp1d(x, y): the interpolant object
Interp1d(x, y) == [kind |-> "interp1d", x |-> x, y |-> y]

\* np.searchsorted(x, v): the first index j in lo..hi with v <= x[j], by
\* bisection (x is sorted and v <= x[hi])
RECURSIVE SearchSorted(_, _, _, _)
SearchSorted(x, v, lo, hi) ==
    IF lo >= hi THEN hi
    ELSE IF LeqD(v, x[(lo + hi) \div 2])
         THEN SearchSorted(x, v, lo, (lo + hi) \div 2)
         ELSE SearchSorted(x, v, (lo + hi) \div 2 + 1, hi)

\* slope * (xNew - x[lo]) + y[lo], with slope = (y[hi] - y[lo]) / (x[hi] - x[lo])
InterpBetween(f, xNew, lo, hi) ==
    AddV(MulVD(DivVD(SubV(f.y[hi], f.y[lo]), SubD(f.x[hi], f.x[lo])),
               SubD(xNew, f.x[lo])),
         f.y[lo])

\* interp1d.__call__ on one element inside [x[1], x[n]]: linear, between the
\* neighbours np.searchsorted finds
InterpAt(f, xNew) ==
    Bind(SearchSorted(f.x, xNew, 1, Len(f.x)), LAMBDA j0 :
        IF j0 < 2 THEN InterpBetween(f, xNew, 1, 2)
        ELSE InterpBetween(f, xNew, j0 - 1, j0))

\* interp1d.__call__: bounds_error is on, a point off the grid's span raises
InterpCall(f, wavelength) ==
    IF wavelength.kind = "None" THEN Raised("TypeError", wavelength)
    ELSE IF \E i \in DOMAIN wavelength.xs :
                \/ ~LeqD(f.x[1], wavelength.xs[i])
                \/ ~LeqD(wavelength.xs[i], f.x[Len(f.x)])
         THEN Raised("ValueError", wavelength)
    ELSE Returned([i \in DOMAIN wavelength.xs |-> InterpAt(f, wavelength.xs[i])],
                  wavelength)

MaxGridEvals == 3

\* Variant of CacheEmpty: the cache is never found populated
AlwaysEmpty(f) == TRUE

\* `not self.nDer1Func`
CacheEmpty(f) == f.kind = "None"

\* The methods below return the object as the call leaves it (s), what the
\* call gave back (r) and what the decorator made of the caller's argument
\* (conv; NoConv where the method is not decorated).
NoConv == [raised |-> FALSE, wl |-> None, factor |-> 0 - 2, fresh |-> FALSE]

Out(s, r, conv) == [s |-> s, r |-> r, conv |-> conv]

\* Variant of TimesE9: the conversion from 1/nm is left out
TimesOne(r) == r

\* r * 1.e9
TimesE9(r) ==
    Bind(r, LAMBDA v :
        IF v.err # "" THEN v
        ELSE [v EXCEPT !.val = Vector([i \in DOMAIN v.val |-> ScaleV(v.val[i], 9)])])

\* self.n(self._wls), counted when it reaches the evaluator
GridIndex(s) ==
    Bind(N(s, Array(s.wls)), LAMBDA nr :
        Out([s EXCEPT !.wls = nr.arg.xs,
                      !.gridEvals = IF nr.err = "AssertionError" THEN @
                                    ELSE MinInt(@ + 1, MaxGridEvals)],
            nr, NoConv))

\* `if not self.nDer1Func:` and the two lines under it
BuildDer1(s) ==
    Bind(GridIndex(s), LAMBDA g :
        IF g.r.err # "" THEN g
        ELSE Out([g.s EXCEPT !.nDer1Func =
                      Interp1d(g.s.wls, Gradient(g.r.val, g.s.wlStep))],
                 g.r, NoConv))

\* _Material._nDer1
nDer1_(s, wavelength) ==
    Bind(IF CacheEmpty(s.nDer1Func) THEN BuildDer1(s)
         ELSE Out(s, Returned(<<>>, None), NoConv),
         LAMBDA b :
        IF b.r.err # "" THEN Out(b.s, Raised(b.r.err, wavelength), NoConv)
        ELSE Out(b.s, TimesE9(InterpCall(b.s.nDer1Func, wavelength)), NoConv))

\* `if not self.nDer2Func:` and the two lines under it
BuildDer2(s) ==
    Bind(nDer1_(s, Array(s.wls)), LAMBDA d :
        IF d.r.err # "" THEN d
        ELSE Out([d.s EXCEPT !.nDer2Func =
                      Interp1d(d.s.wls, Gradient(d.r.val, d.s.wlStep))],
                 d.r, NoConv))

\* _Material._nDer2
nDer2_(s, wavelength) ==
    Bind(IF CacheEmpty(s.nDer2Func) THEN BuildDer2(s)
         ELSE Out(s, Returned(<<>>, None), NoConv),
         LAMBDA b :
        IF b.r.err # "" THEN Out(b.s, Raised(b.r.err, wavelength), NoConv)
        ELSE Out(b.s, TimesE9(InterpCall(b.s.nDer2Func, wavelength)), NoConv))

\* The decorator convertWavelengthUnitsNm around a method body
Decorated(s, wavelength, Body(_, _)) ==
    Bind(ConvertWavelengthUnitsNm(s, wavelength), LAMBDA c :
        IF c.raised THEN Out(s, Raised("AssertionError", wavelength), c)
        ELSE Bind(Body(s, c.wl), LAMBDA o :
                 Out(o.s,
                     [o.r EXCEPT !.arg = IF c.fresh THEN wavelength ELSE o.r.arg],
                     c)))

\* Apply F to each element of what a call returned
Through(o, F(_)) ==
    Bind(o, LAMBDA v :
        IF v.r.err # "" THEN v
        ELSE [v EXCEPT !.r.val = Vector([i \in DOMAIN v.r.val |-> F(v.r.val[i])])])

\* _Material.eps and _Material.n as public calls
eps(s, wavelength) ==
    Out(s, Eps(s, wavelength), ConvertWavelengthUnitsNm(s, wavelength))

index(s, wavelength) ==
    Out(s, N(s, wavelength), ConvertWavelengthUnitsNm(s, wavelength))

\* _Material.nDer1, _Material.nDer2: not decorated
nDer1(s, wavelength) == nDer1_(s, wavelength)

nDer2(s, wavelength) == nDer2_(s, wavelength)

\* n - (wavelength*1.e-9) * nDer1, element by element, from what n and
\* nDer1 returned
NgOf(nr, dr) ==
    IF dr.err # "" THEN Raised(dr.err, nr.arg)
    ELSE Returned([i \in DOMAIN nr.val |->
                      [k |-> "ng", n |-> nr.val[i],
                       wl |-> MulPow10(nr.arg.xs[i], 0 - 9),
                       nDer1 |-> dr.val[i]]],
                  nr.arg)

\* The body of ng: self.n(wavelength), then self.nDer1(wavelength)
NgBody(s, wavelength) ==
    Bind(N(s, wavelength), LAMBDA nr :
        IF nr.err # "" THEN Out(s, nr, NoConv)
        ELSE Bind(nDer1(s, nr.arg), LAMBDA d : Out(d.s, NgOf(nr, d.r), NoConv)))

\* _Material.ng
ng(s, wavelength) == Decorated(s, wavelength, NgBody)

VgOf(v) == [k |-> "vg", ng |-> v]

\* _Material.vg: spc.c / self.ng(wavelength)
vg(s, wavelength) == Through(ng(s, wavelength), VgOf)

\* (wavelength*1.e-9)**3./(2.*spc.pi*spc.c**2.) * nDer2, element by element,
\* from what nDer2 returned
GvdOf(wavelength, dr) ==
    IF dr.err # "" THEN dr
    ELSE Returned([i \in DOMAIN dr.val |->
                      [k |-> "gvd",
                       wl |-> MulPow10(wavelength.xs[i], 0 - 9),
                       nDer2 |-> dr.val[i]]],
                  wavelength)

\* The body of gvd
GvdBody(s, wavelength) ==
    Bind(nDer2(s, wavelength), LAMBDA d :
        Out(d.s, GvdOf(wavelength, d.r), NoConv))

\* _Material.gvd
gvd(s, wavelength) == Decorated(s, wavelength, GvdBody)

\* 2.*spc.pi*self.n(wavelength)/(wavelength*1.e-9)
Beta0Body(s, wavelength) ==
    Bind(N(s, wavelength), LAMBDA nr :
        IF nr.err # "" THEN Out(s, nr, NoConv)
        ELSE Out(s,
                 Returned([i \in DOMAIN nr.val |->
                              [k |-> "beta0", n |-> nr.val[i],
                               wl |-> MulPow10(nr.arg.xs[i], 0 - 9)]],
                          nr.arg),
                 NoConv))

\* _Material.beta0
beta0(s, wavelength) == Decorated(s, wavelength, Beta0Body)

Beta1Of(v) == [k |-> "beta1", vg |-> v]

\* _Material.beta1: 1./self.vg(wavelength)
beta1(s, wavelength) == Through(vg(s, wavelength), Beta1Of)

\* _Material.beta2: self.gvd(wavelength)
beta2(s, wavelength) == gvd(s, wavelength)

Z0Of(v) == [k |-> "z0", n |-> v]

\* _Material.z0: 120*np.pi / self.n(wavelength)
z0(s, wavelength) == Through(index(s, wavelength), Z0Of)

-----------------------------------------------------------------------------
(* The callers' arguments                                                  *)

MaxBatch == 2

\* Wavelengths a caller passes as a scalar: nanometers, micrometers, meters
ScalarWavelengths ==
    { Dec(299, 0), Dec(3, 2), Dec(4, 2), Dec(155, 1), Dec(24, 2), Dec(4953, 0),
      Dec(5, 3), Dec(5001, 0),
      Dec(155, 0 - 2), Dec(5, 0), Dec(5001, 0 - 3),
      Dec(155, 0 - 8), Dec(5, 0 - 6) }

\* Elements of the arrays a caller passes
ArrayWavelengths == { Dec(3, 2), Dec(155, 0 - 2) }

Arrays ==
    UNION { [1..len -> ArrayWavelengths] : len \in 1..MaxBatch }

Inputs ==
    { Scalar(d) : d \in ScalarWavelengths } \cup { Array(a) : a \in Arrays }
        \cup { None }

Materials ==
    { Su8,
      Chalcogenide("GeSe4"),
      Data(<<Dec(4, 0 - 1), Dec(14, 0 - 1), Dec(24, 0 - 1)>>, <<1500, 1480, 1470>>) }

-----------------------------------------------------------------------------
(* One caller: the state after construction, one action per public method  *)

NoCall == [op |-> "", arg |-> None, err |-> "", val |-> <<>>, conv |-> NoConv]

Idle ==
    /\ pc = <<>>
    /\ targ = <<>>
    /\ tloc = <<>>
    /\ tret = <<>>

Constructed(m) ==
    LET s == Construct(m) IN
    /\ mat = s.mat
    /\ wlMin = s.wlMin
    /\ wlMax = s.wlMax
    /\ wls = s.wls
    /\ wlStep = s.wlStep
    /\ nDer1Func = s.nDer1Func
    /\ nDer2Func = s.nDer2Func
    /\ gridEvals = s.gridEvals

Init ==
    /\ \E m \in Materials : Constructed(m)
    /\ last = NoCall
    /\ prevDer1 = NoCall
    /\ Idle

\* The object as a call leaves it
Becomes(s) ==
    /\ mat' = s.mat
    /\ wlMin' = s.wlMin
    /\ wlMax' = s.wlMax
    /\ wls' = s.wls
    /\ wlStep' = s.wlStep
    /\ nDer1Func' = s.nDer1Func
    /\ nDer2Func' = s.nDer2Func
    /\ gridEvals' = s.gridEvals

\* One caller, synchronous: a call starts when the one before has returned.
Called(op, wavelength, o) ==
    /\ Becomes(o.s)
    /\ last' = [op |-> op, arg |-> wavelength, err |-> o.r.err, val |-> o.r.val,
                conv |-> o.conv]
    /\ UNCHANGED <<prevDer1, threadVars>>

CallEps(w) ==
    /\ last = NoCall
    /\ \E o \in {eps(Self, w)} : Called("eps", w, o)

CallN(w) ==
    /\ last = NoCall
    /\ \E o \in {index(Self, w)} : Called("n", w, o)

CallNDer1(w) ==
    /\ last = NoCall
    /\ \E o \in {nDer1(Self, w)} : Called("nDer1", w, o)

CallNDer2(w) ==
    /\ last = NoCall
    /\ \E o \in {nDer2(Self, w)} : Called("nDer2", w, o)

CallNg(w) ==
    /\ last = NoCall
    /\ \E o \in {ng(Self, w)} : Called("ng", w, o)

CallVg(w) ==
    /\ last = NoCall
    /\ \E o \in {vg(Self, w)} : Called("vg", w, o)

CallGvd(w) ==
    /\ last = NoCall
    /\ \E o \in {gvd(Self, w)} : Called("gvd", w, o)

CallBeta0(w) ==
    /\ last = NoCall
    /\ \E o \in {beta0(Self, w)} : Called("beta0", w, o)

CallBeta1(w) ==
    /\ last = NoCall
    /\ \E o \in {beta1(Self, w)} : Called("beta1", w, o)

CallBeta2(w) ==
    /\ last = NoCall
    /\ \E o \in {beta2(Self, w)} : Called("beta2", w, o)

CallZ0(w) ==
    /\ last = NoCall
    /\ \E o \in {z0(Self, w)} : Called("z0", w, o)


\* The caller takes the outcome of the call.
Return ==
    /\ last # NoCall
    /\ last' = NoCall
    /\ prevDer1' = IF last.op = "nDer1" THEN last ELSE prevDer1
    /\ UNCHANGED <<fields, gridEvals, threadVars>>

Call ==
    \E w \in Inputs :
        \/ CallEps(w)
        \/ CallN(w)
        \/ CallNDer1(w)
        \/ CallNDer2(w)
        \/ CallNg(w)
        \/ CallVg(w)
        \/ CallGvd(w)
        \/ CallBeta0(w)
        \/ CallBeta1(w)
        \/ CallBeta2(w)
        \/ CallZ0(w)

Next == Call \/ Return

Spec == Init /\ [][Next]_vars

-----------------------------------------------------------------------------
(* Properties of one caller's executions (Spec)                            *)

\* 1550 nm written in meters, in micrometers and in nanometers
Nm1550 == Scalar(Dec(155, 1))

SamePhysicalWavelength ==
    { Scalar(Dec(155, 0 - 8)), Scalar(Dec(155, 0 - 2)), Nm1550 }

DefaultBounds ==
    /\ wlMin = Canon(Dec(DefaultWlMinNm, 0))
    /\ wlMax = Canon(Dec(DefaultWlMaxNm, 0))

\* What the normalizer would make of the argument of the call that has ended
ScaledArg == Scaled(last.arg, WlFactor(Self, last.arg))

\* C1: on a material valid over [300, 5000] nm, n() called with 1.55e-6, with
\* 1.55 or with 1550 evaluates the permittivity at 1550 nm and returns what
\* n(1550) returns.
C1_SameIndexInAllUnits ==
    (last.op = "n" /\ last.arg \in SamePhysicalWavelength /\ DefaultBounds)
        => /\ last.err = ""
           /\ last.conv.wl = Nm1550
           /\ last.val = N(Self, Nm1550).val

C1_Witness ==
    /\ last.op = "n"
    /\ last.arg = Scalar(Dec(155, 0 - 8))
    /\ DefaultBounds
    /\ last.err = ""
    /\ last.val # <<>>

\* C2: a decorated call scales every element of its argument by one factor:
\* 1e9 if all elements are <= wlMax*1e-9, else 1e3 if all are <= wlMax*1e-3,
\* else 1.
C2_OneFactorPerCall ==
    (last.op # "" /\ last.arg.kind # "None" /\ last.conv # NoConv)
        => LET xs == last.arg.xs
               k  == IF \A i \in DOMAIN xs : LeqD(xs[i], MulPow10(wlMax, 0 - 9))
                     THEN 9
                     ELSE IF \A i \in DOMAIN xs : LeqD(xs[i], MulPow10(wlMax, 0 - 3))
                          THEN 3
                     ELSE 0
           IN  /\ last.conv.factor = k
               /\ DOMAIN last.conv.wl.xs = DOMAIN xs
               /\ \A i \in DOMAIN xs : last.conv.wl.xs[i] = MulPow10(xs[i], k)

C2_Witness ==
    /\ last.op = "eps"
    /\ last.arg.kind = "array"
    /\ Len(last.arg.xs) = 2
    /\ last.arg.xs[1] # last.arg.xs[2]
    /\ last.conv.factor = 0
    /\ last.conv.wl.xs = last.arg.xs

\* C3: a public call whose argument, scaled to nanometers, has an element
\* outside [wlMin, wlMax] raises and returns nothing.
C3_OutOfRangeRaises ==
    (last.op # "" /\ last.arg.kind # "None" /\ ~InBounds(Self, ScaledArg))
        => (last.err # "" /\ last.val = <<>>)

C3_Witness ==
    /\ last.op = "z0"
    /\ last.arg = Scalar(Dec(5001, 0 - 3))
    /\ last.err = "AssertionError"

\* C4: a public call with exactly wlMin or exactly wlMax returns a value.
C4_BoundsQueriesSucceed ==
    (last.op # "" /\ last.arg.kind = "scalar" /\ last.arg.xs[1] \in {wlMin, wlMax})
        => last.err = ""

\* C5: nDer1 and nDer2 called with 1550 nm written in meters or in
\* micrometers return what they return for 1550.
C5_DerivativesAcceptCallerUnits ==
    (last.op \in {"nDer1", "nDer2"} /\ last.arg \in SamePhysicalWavelength
            /\ DefaultBounds)
        => /\ last.err = ""
           /\ last.val = IF last.op = "nDer1" THEN nDer1(Self, Nm1550).r.val
                         ELSE nDer2(Self, Nm1550).r.val

\* C6: a populated cache field keeps its value in every step, the grid is
\* passed to the permittivity evaluator at most once, and an nDer1 call with
\* the argument of the nDer1 call before it ends as that one did.
C6_CachesBuiltOnce ==
    [][/\ ~CacheEmpty(nDer1Func) => nDer1Func' = nDer1Func
       /\ ~CacheEmpty(nDer2Func) => nDer2Func' = nDer2Func
       /\ gridEvals' <= 1
       /\ (last'.op = "nDer1" /\ prevDer1.op = "nDer1" /\ last'.arg = prevDer1.arg)
            => (last'.err = prevDer1.err /\ last'.val = prevDer1.val)]_vars

C6_Witness ==
    /\ last.op = "nDer1"
    /\ prevDer1.op = "nDer1"
    /\ prevDer1.arg = last.arg
    /\ last.err = ""
    /\ last.val # <<>>
    /\ ~CacheEmpty(nDer2Func)
    /\ gridEvals = 1

\* The permittivity is negative at an element of the normalized argument
NegativeEps ==
    /\ last.conv # NoConv
    /\ last.arg.kind # "None"
    /\ ~last.conv.raised
    /\ \E i \in DOMAIN last.conv.wl.xs :
           EpsOf(mat, last.conv.wl).val[i].num < 0

\* C7: n and the operations computed from it raise when the permittivity is
\* negative at an in-range wavelength of the argument.
C7_NegativePermittivityRaises ==
    (last.op \in {"n", "ng", "vg", "beta0", "beta1", "z0"} /\ NegativeEps)
        => last.err # ""

\* C9: no step changes the material, wlMin, wlMax, the grid or the step.
C9_OnlyCachesChange ==
    [][/\ mat' = mat
       /\ wlMin' = wlMin
       /\ wlMax' = wlMax
       /\ wls' = wls
       /\ wlStep' = wlStep]_vars

C9_Witness ==
    /\ mat.cls = "Su8"
    /\ ~CacheEmpty(nDer1Func)
    /\ ~CacheEmpty(nDer2Func)
    /\ last.op = "ng"
    /\ last.arg.kind = "array"
    /\ last.err = ""

\* The grid as __init__ lays it out
GridAsConstructed ==
    /\ Len(wls) = 100
    /\ wls[1] = wlMin
    /\ MulPow10(wlStep, 2) = SubD(wlMax, wlMin)
    /\ \A i \in 1..(Len(wls) - 1) :
           /\ SubD(wls[i + 1], wls[i]) = wlStep
           /\ ~LeqD(wls[i + 1], wls[i])
    /\ AddD(wls[Len(wls)], wlStep) = wlMax
    /\ \A i \in DOMAIN wls : wls[i] # wlMax

\* A step that populates a cache field takes the grid as the abscissas and a
\* gradient with spacing wlStep as the ordinates
BuiltOnGrid ==
    /\ nDer1Func' # nDer1Func
         => /\ nDer1Func'.x = wls
            /\ nDer1Func'.y = Gradient(N(Self, Array(wls)).val, wlStep)
    /\ nDer2Func' # nDer2Func
         => /\ nDer2Func'.x = wls
            /\ nDer2Func'.y =
                 Gradient(TimesE9(InterpCall(nDer1Func', Array(wls))).val, wlStep)

\* C10: in every state the grid has 100 points, starts at wlMin, rises by
\* wlStep = (wlMax - wlMin)/100 from each point to the next and ends one step
\* below wlMax; every step that builds an interpolant builds it on this grid
\* with this step.
C10_GridShape == []GridAsConstructed /\ [][BuiltOnGrid]_vars

C10_Witness ==
    /\ mat.cls = "Data"
    /\ ~CacheEmpty(nDer1Func)
    /\ ~CacheEmpty(nDer2Func)
    /\ wls[Len(wls)] = Dec(238, 1)
    /\ wlStep = Dec(2, 1)

\* The finite differences of n over the grid, per nanometer and per
\* nanometer squared
PerNanometer1 == Gradient(N(Self, Array(wls)).val, wlStep)

PerNanometer2 == Gradient(PerNanometer1, wlStep)

Unchanged(s, wl) ==
    LET c == ConvertWavelengthUnitsNm(s, wl)
    IN  /\ ~c.raised
        /\ c.factor = 0
        /\ c.wl.xs = wl.xs

\* The permittivity and the index at the wavelengths the outer call resolved
EpsAtResolved == EpsOf(mat, last.conv.wl).val

IndexAtResolved ==
    [i \in DOMAIN EpsAtResolved |-> SqrtOf(EpsAtResolved[i], last.arg.kind)]

-----------------------------------------------------------------------------
(* Two callers on one freshly constructed material.  A caller runs _nDer1  *)
(* and _nDer2 line by line; between two lines the other caller may run.    *)

Threads == { "t1", "t2" }

\* The public methods the callers use, and their arguments
ThreadOps == { "nDer1", "nDer2", "ng", "gvd" }

\* nDer1 and nDer2 take 1550 nm in nanometers and in micrometers; ng and gvd,
\* which normalize their argument, take it in micrometers
ThreadInputs(op) ==
    IF op \in {"nDer1", "nDer2"} THEN { Nm1550, Scalar(Dec(155, 0 - 2)) }
    ELSE { Scalar(Dec(155, 0 - 2)) }

ThreadMaterials == { m \in Materials : m.cls \in {"Su8", "Data"} }

NoTarget == [op |-> "", arg |-> None, n |-> Returned(<<>>, None), state |-> "idle"]

NoResult == Returned(<<>>, None)

\* A frame of a caller's stack: the private method, the line it is at, its
\* argument
Frame(fn, at, arg) == [fn |-> fn, at |-> at, arg |-> arg]

InFrame(t, fn, at) ==
    /\ pc[t] # <<>>
    /\ Head(pc[t]).fn = fn
    /\ Head(pc[t]).at = at

Goto(t, at) ==
    pc' = [pc EXCEPT ![t] = <<[Head(@) EXCEPT !.at = at]>> \o Tail(@)]

InitConc ==
    /\ \E m \in ThreadMaterials : Constructed(m)
    /\ last = NoCall
    /\ prevDer1 = NoCall
    /\ pc = [t \in Threads |-> <<>>]
    /\ targ = [t \in Threads |-> NoTarget]
    /\ tloc = [t \in Threads |-> <<>>]
    /\ tret = [t \in Threads |-> NoResult]

\* What runs before the first line of _nDer1 or _nDer2: nothing for nDer1
\* and nDer2, the decorator for ng and gvd, and for ng self.n(wavelength)
Entered(s, op, wavelength) ==
    IF op \in {"nDer1", "nDer2"}
    THEN [raised |-> "", wl |-> wavelength, n |-> Returned(<<>>, None)]
    ELSE Bind(ConvertWavelengthUnitsNm(s, wavelength), LAMBDA c :
             IF c.raised
             THEN [raised |-> "AssertionError", wl |-> c.wl,
                   n |-> Returned(<<>>, None)]
             ELSE IF op = "gvd"
             THEN [raised |-> "", wl |-> c.wl, n |-> Returned(<<>>, None)]
             ELSE Bind(N(s, c.wl), LAMBDA nr :
                      [raised |-> nr.err, wl |-> nr.arg, n |-> nr]))

\* A caller enters a public method
Invoke(t) ==
    /\ targ[t].state = "idle"
    /\ \E op \in ThreadOps : \E w \in ThreadInputs(op) :
         \E e \in {Entered(Self, op, w)} :
            IF e.raised # ""
            THEN /\ targ' = [targ EXCEPT ![t] =
                                [op |-> op, arg |-> w, n |-> e.n, state |-> "returned"]]
                 /\ tret' = [tret EXCEPT ![t] = Raised(e.raised, w)]
                 /\ pc' = pc
            ELSE /\ targ' = [targ EXCEPT ![t] =
                                [op |-> op, arg |-> w, n |-> e.n, state |-> "running"]]
                 /\ pc' = [pc EXCEPT ![t] =
                              <<Frame(IF op \in {"nDer1", "ng"} THEN "_nDer1"
                                      ELSE "_nDer2", "test", e.wl)>>]
                 /\ tret' = tret
    /\ UNCHANGED <<fields, gridEvals, last, prevDer1, tloc>>

\* Variant of TestDer1: a caller that finds the cache empty first stores an
\* interpolant whose ordinates are not filled in yet
TestDer1Publishing(t) ==
    /\ InFrame(t, "_nDer1", "test")
    /\ IF CacheEmpty(nDer1Func)
       THEN /\ nDer1Func' = Interp1d(wls, [i \in DOMAIN wls |-> Real(0, 1, 0)])
            /\ Goto(t, "sample")
       ELSE /\ nDer1Func' = nDer1Func
            /\ Goto(t, "call")
    /\ UNCHANGED <<mat, wlMin, wlMax, wls, wlStep, nDer2Func, gridEvals, last,
                   prevDer1, targ, tloc, tret>>

\* _nDer1: `if not self.nDer1Func:`
TestDer1(t) ==
    /\ InFrame(t, "_nDer1", "test")
    /\ IF CacheEmpty(nDer1Func) THEN Goto(t, "sample") ELSE Goto(t, "call")
    /\ UNCHANGED <<fields, gridEvals, last, prevDer1, targ, tloc, tret>>

\* _nDer1: nDer1 = np.gradient(self.n(self._wls), self._wlStep)
SampleDer1(t) ==
    /\ InFrame(t, "_nDer1", "sample")
    /\ \E g \in {GridIndex(Self)} :
         /\ wls' = g.s.wls
         /\ gridEvals' = g.s.gridEvals
         /\ IF g.r.err # ""
            THEN /\ pc' = [pc EXCEPT ![t] = <<>>]
                 /\ tret' = [tret EXCEPT ![t] = Raised(g.r.err, Head(pc[t]).arg)]
                 /\ tloc' = tloc
            ELSE /\ Goto(t, "store")
                 /\ tloc' = [tloc EXCEPT ![t] = Gradient(g.r.val, wlStep)]
                 /\ tret' = tret
    /\ UNCHANGED <<mat, wlMin, wlMax, wlStep, nDer1Func, nDer2Func, last,
                   prevDer1, targ>>

\* _nDer1: self.nDer1Func = spi.interp1d(self._wls, nDer1)
StoreDer1(t) ==
    /\ InFrame(t, "_nDer1", "store")
    /\ nDer1Func' = Interp1d(wls, tloc[t])
    /\ tloc' = [tloc EXCEPT ![t] = <<>>]
    /\ Goto(t, "call")
    /\ UNCHANGED <<mat, wlMin, wlMax, wls, wlStep, nDer2Func, gridEvals, last,
                   prevDer1, targ, tret>>

\* A frame ends: with a value it returns to the frame below, with an
\* exception the whole stack unwinds
Ends(t, r) ==
    /\ tret' = [tret EXCEPT ![t] = r]
    /\ pc' = [pc EXCEPT ![t] = IF r.err # "" THEN <<>> ELSE Tail(@)]

\* _nDer1: return self.nDer1Func(wavelength)*1.e9
CallDer1(t) ==
    /\ InFrame(t, "_nDer1", "call")
    /\ \E r \in {TimesE9(InterpCall(nDer1Func, Head(pc[t]).arg))} : Ends(t, r)
    /\ UNCHANGED <<fields, gridEvals, last, prevDer1, targ, tloc>>

\* Variant of TestDer2: with the cache empty, the first differences are
\* sampled from n directly, without the first-derivative cache
TestDer2Bypassing(t) ==
    /\ InFrame(t, "_nDer2", "test")
    /\ IF CacheEmpty(nDer2Func)
       THEN /\ tret' = [tret EXCEPT ![t] =
                           TimesE9(Returned(Gradient(N(Self, Array(wls)).val, wlStep),
                                            Array(wls)))]
            /\ Goto(t, "store")
       ELSE /\ tret' = tret
            /\ Goto(t, "call")
    /\ UNCHANGED <<fields, gridEvals, last, prevDer1, targ, tloc>>

\* _nDer2: `if not self.nDer2Func:` and, with the cache empty, the call
\* self._nDer1(self._wls)
TestDer2(t) ==
    /\ InFrame(t, "_nDer2", "test")
    /\ IF CacheEmpty(nDer2Func)
       THEN pc' = [pc EXCEPT ![t] =
                      <<Frame("_nDer1", "test", Array(wls)),
                        [Head(@) EXCEPT !.at = "store"]>> \o Tail(@)]
       ELSE Goto(t, "call")
    /\ UNCHANGED <<fields, gridEvals, last, prevDer1, targ, tloc, tret>>

\* _nDer2: nDer2 = np.gradient(<what _nDer1 returned>, self._wlStep) and
\* self.nDer2Func = spi.interp1d(self._wls, nDer2)
StoreDer2(t) ==
    /\ InFrame(t, "_nDer2", "store")
    /\ nDer2Func' = Interp1d(wls, Gradient(tret[t].val, wlStep))
    /\ Goto(t, "call")
    /\ UNCHANGED <<mat, wlMin, wlMax, wls, wlStep, nDer1Func, gridEvals, last,
                   prevDer1, targ, tloc, tret>>

\* _nDer2: return self.nDer2Func(wavelength)*1.e9
CallDer2(t) ==
    /\ InFrame(t, "_nDer2", "call")
    /\ \E r \in {TimesE9(InterpCall(nDer2Func, Head(pc[t]).arg))} : Ends(t, r)
    /\ UNCHANGED <<fields, gridEvals, last, prevDer1, targ, tloc>>

\* The public method returns to its caller
Finish(t) ==
    /\ targ[t].state = "running"
    /\ pc[t] = <<>>
    /\ targ' = [targ EXCEPT ![t].state = "returned"]
    /\ tret' = [tret EXCEPT ![t] =
                   CASE targ[t].op = "ng" -> NgOf(targ[t].n, @)
                     [] targ[t].op = "gvd" /\ @.err = "" -> GvdOf(@.arg, @)
                     [] OTHER -> @]
    /\ UNCHANGED <<fields, gridEvals, last, prevDer1, pc, tloc>>

NextConc ==
    \E t \in Threads :
        \/ Invoke(t)
        \/ TestDer1(t)
        \/ SampleDer1(t)
        \/ StoreDer1(t)
        \/ CallDer1(t)
        \/ TestDer2(t)
        \/ StoreDer2(t)
        \/ CallDer2(t)
        \/ Finish(t)

SpecConc == InitConc /\ [][NextConc]_vars

-----------------------------------------------------------------------------
(* Properties of the two callers' executions (SpecConc)                    *)

\* The object after one caller alone has run nDer2 on the fresh material:
\* both interpolants built, each once
SequentiallyBuilt == BuildDer2(Construct(mat)).s

\* What a public call returns when no other caller runs
Sequentially(s, op, wavelength) ==
    CASE op = "nDer1" -> nDer1(s, wavelength).r
      [] op = "nDer2" -> nDer2(s, wavelength).r
      [] op = "ng" -> ng(s, wavelength).r
      [] OTHER -> gvd(s, wavelength).r

\* C8: with two callers interleaved line by line, a cache field is either
\* empty or holds the interpolant a lone caller builds (the second one built
\* from the complete first one), and every call that has returned gave back
\* the error or the values it gives back to a lone caller.
C8_ConcurrentCallsAsSequential ==
    \E s \in {SequentiallyBuilt} :
        /\ CacheEmpty(nDer1Func) \/ nDer1Func = s.nDer1Func
        /\ CacheEmpty(nDer2Func) \/ nDer2Func = s.nDer2Func
        /\ \A t \in Threads :
               targ[t].state = "returned"
                   => /\ tret[t].err = Sequentially(s, targ[t].op, targ[t].arg).err
                      /\ tret[t].val = Sequentially(s, targ[t].op, targ[t].arg).val

C8_Witness ==
    /\ gridEvals = 2
    /\ targ["t1"].state = "returned"
    /\ targ["t2"].state = "returned"
    /\ targ["t1"].op = "gvd"
    /\ targ["t2"].op = "ng"
    /\ tret["t1"].err = ""
    /\ tret["t2"].err = ""
    /\ tret["t1"].val # <<>>
    /\ tret["t2"].val # <<>>

\* Both interpolants are there when the second is, and when a caller's nDer2
\* or gvd has returned
SecondImpliesFirst ==
    /\ ~CacheEmpty(nDer2Func) => ~CacheEmpty(nDer1Func)
    /\ \A t \in Threads :
           (targ[t].op \in {"nDer2", "gvd"} /\ targ[t].state = "returned")
               => (~CacheEmpty(nDer1Func) /\ ~CacheEmpty(nDer2Func))

\* The step that stores the second interpolant finds the first one stored
\* and takes its ordinates from the first one's values on the grid
SecondFromFirst ==
    nDer2Func' # nDer2Func
        => /\ ~CacheEmpty(nDer1Func)
           /\ nDer2Func'.x = wls
           /\ nDer2Func'.y =
                 Gradient(TimesE9(InterpCall(nDer1Func, Array(wls))).val, wlStep)

\* C13: in every state a populated second-derivative interpolant comes with
\* a populated first-derivative interpolant, a returned nDer2 or gvd leaves
\* both populated, and every step that stores the second interpolant finds the
\* first already stored and computes the second from its values on the grid.
C13_SecondBuiltFromFirst == []SecondImpliesFirst /\ [][SecondFromFirst]_vars

C13_Witness ==
    /\ targ["t1"].op = "nDer2"
    /\ targ["t1"].arg = Nm1550
    /\ targ["t1"].state = "returned"
    /\ tret["t1"].err = ""
    /\ targ["t2"].state = "idle"
    /\ ~CacheEmpty(nDer1Func)
    /\ ~CacheEmpty(nDer2Func)
    /\ gridEvals = 1

====
